---- MODULE Spec2Model ----
(***************************************************************************)
(* Model of edit_video_ffmpeg_only.py: the silence pairing loop of         *)
(* detect_silences_ffmpeg, build_keep_ranges_gentle (keep loop, merge      *)
(* pass, clamp pass) and build_filter_complex.                             *)
(*                                                                         *)
(* Times are integers counting microseconds, so that one second of the     *)
(* program is 1000000 and the merge tolerance 0.002 s is 2000.  The two    *)
(* ratios are integers counting tenths (0.6 is 6).  The inputs are drawn   *)
(* from whole milliseconds, for which every product and quotient the code  *)
(* computes is an integer: the model is the code's arithmetic over the     *)
(* rationals, without the rounding of binary floating point.  The          *)
(* timestamps tried are 0, 1, 4, 5, 8, ... ms, so that neighbouring ones   *)
(* fall within the merge tolerance and the others fall outside it.         *)
(***************************************************************************)
EXTENDS Integers, Sequences, FiniteSets, TLC

VARIABLES pc, starts, ends, total_s, params, preset, silences, keep, ranges, fc

vars == <<pc, starts, ends, total_s, params, preset, silences, keep, ranges, fc>>

-----------------------------------------------------------------------------
(* Bounds of the model *)

\* silence timestamps are the grid points 0 .. MaxT
MaxT == 4
\* at most MaxSilences silences in a list given to build_keep_ranges_gentle
MaxSilences == 2
\* silence_start / silence_end stamps are the grid points 0 .. MaxStamp
MaxStamp == 4
\* at most MaxEvents silence_start and at most MaxEvents silence_end stamps
MaxEvents == 3
\* the merge pass is applied to lists of at most MaxSegs ranges
MaxSegs == 3
\* whose coordinates are the grid points 0 .. MaxCoord
MaxCoord == 3

-----------------------------------------------------------------------------
(* Units *)

\* microseconds in a millisecond: main divides its millisecond arguments by 1000.0
Ms == 1000
\* a ratio r stands for r / RatioDen
RatioDen == 10
\* the merge tolerance 0.002 s
Eps == 2000

Max(a, b) == IF a >= b THEN a ELSE b
Min(a, b) == IF a <= b THEN a ELSE b

\* x * (r / RatioDen)
Scale(x, r) == (x * r) \div RatioDen

\* max_final_s=None
None == <<>>

-----------------------------------------------------------------------------
(* detect_silences_ffmpeg: the pairing loop over the two stamp lists *)

\* a stale end that also lets through an end equal to the start
StaleStrict(e, s) == e < s

\* if ends[j] <= starts[i]: the end is stale
Stale(e, s) == e <= s

RECURSIVE PairLoop(_, _, _, _, _)
PairLoop(S, E, i, j, acc) ==
    IF i <= Len(S) /\ j <= Len(E)
    THEN IF Stale(E[j], S[i])
         THEN PairLoop(S, E, i, j + 1, acc)
         ELSE PairLoop(S, E, i + 1, j + 1, Append(acc, <<S[i], E[j]>>))
    ELSE acc

detect_silences_ffmpeg(S, E) == PairLoop(S, E, 1, 1, <<>>)

-----------------------------------------------------------------------------
(* build_keep_ranges_gentle; a range [a, b] is the pair <<a, b>> *)

\* if cursor < s: keep.append([cursor, s])
SpeechSeg(cursor, s) == IF cursor < s THEN << <<cursor, s>> >> ELSE <<>>

\* final_len without the max_final_s ceiling
FinalLenNoCap(L, p) == Max(Scale(L, p.reduce_ratio), p.min_final_s)

\* final_len: max with min_final_s, then min with max_final_s when it is given and >= 0
FinalLen(L, p) ==
    LET floored == Max(Scale(L, p.reduce_ratio), p.min_final_s)
    IN  IF p.max_final_s # None /\ p.max_final_s[1] >= 0
        THEN Min(floored, p.max_final_s[1])
        ELSE floored

\* the threshold read in the wrong unit
IsShortWrongUnit(L, p) == L < p.long_threshold_s \div Ms

\* if L < long_threshold_s
IsShort(L, p) == L < p.long_threshold_s

\* what one silence (s, e) appends to keep
SilenceSegs(s, e, p) ==
    LET L == Max(0, e - s)
    IN  IF IsShort(L, p)
        THEN << <<s, e>> >>
        ELSE LET final_len  == FinalLen(L, p)
                 head_keep  == Scale(final_len, p.head_tail_ratio)
                 tail_keep  == final_len - head_keep
                 head_end   == s + head_keep
                 tail_start == e - tail_keep
             IN  IF head_end >= tail_start
                 THEN LET mid == s + (L - final_len) \div 2
                      IN  << <<mid, mid + final_len>> >>
                 ELSE << <<s, head_end>>, <<tail_start, e>> >>

\* the for loop over silences, from silence k on; yields the list keep and the cursor
RECURSIVE KeepLoop(_, _, _, _, _)
KeepLoop(sil, k, cursor, acc, p) ==
    IF k > Len(sil)
    THEN [keep |-> acc, cursor |-> cursor]
    ELSE LET s == sil[k][1]
             e == sil[k][2]
         IN  KeepLoop(sil, k + 1, e, acc \o SpeechSeg(cursor, s) \o SilenceSegs(s, e, p), p)

\* keep without the range from the last silence to the end
KeepSegsNoTail(total, sil, p) == KeepLoop(sil, 1, 0, <<>>, p).keep

\* keep as it stands before the merge pass
KeepSegs(total, sil, p) ==
    LET r == KeepLoop(sil, 1, 0, <<>>, p)
    IN  r.keep \o SpeechSeg(r.cursor, total)

\* the first merged range taken for the previous one
PrevFirst(merged) == 1

\* prev = merged[-1]
Prev(merged) == Len(merged)

\* the start of the previous range compared instead of its end
ShouldMergeStart(prev, seg) == seg[1] <= prev[1] + Eps

\* seg[0] <= prev[1] + 0.002
ShouldMerge(prev, seg) == seg[1] <= prev[2] + Eps

\* one iteration of the merge loop
MergeStep(merged, seg) ==
    IF merged = <<>>
    THEN <<seg>>
    ELSE LET k    == Prev(merged)
             prev == merged[k]
         IN  IF ShouldMerge(prev, seg)
             THEN [merged EXCEPT ![k] = <<prev[1], Max(prev[2], seg[2])>>]
             ELSE Append(merged, seg)

RECURSIVE MergeLoop(_, _, _)
MergeLoop(segs, k, merged) ==
    IF k > Len(segs) THEN merged ELSE MergeLoop(segs, k + 1, MergeStep(merged, segs[k]))

MergePass(segs) == MergeLoop(segs, 1, <<>>)

\* seg[0] = max(0.0, seg[0]); seg[1] = max(seg[0], seg[1])
ClampSeg(seg) == LET a == Max(0, seg[1]) IN <<a, Max(a, seg[2])>>

ClampPass(merged) == [k \in 1..Len(merged) |-> ClampSeg(merged[k])]

build_keep_ranges_gentle(total, sil, p) == ClampPass(MergePass(KeepSegs(total, sil, p)))

-----------------------------------------------------------------------------
(* build_filter_complex; a part of the filter graph is a record naming the  *)
(* labels it reads, its filters and the labels it writes                    *)

\* {x:.3f}: x rounded to the nearest thousandth of a second, counted in thousandths
Fmt3(x) == (x + Ms \div 2) \div Ms

\* a label is <<name, index>>: f"v{i}" is <<"v", i>>, a fixed label has index -1
vlab(i) == <<"v", i>>
alab(i) == <<"a", i>>
Fixed(name) == <<name, -1>>

\* the two parts appended for keep range number i (counted from 0)
TrimParts(i, seg) ==
    << [op |-> "trim",  ins |-> << Fixed("0:v") >>, start |-> Fmt3(seg[1]), end |-> Fmt3(seg[2]),
        chain |-> <<"trim", "setpts">>, outs |-> <<vlab(i)>>],
       [op |-> "atrim", ins |-> << Fixed("0:a") >>, start |-> Fmt3(seg[1]), end |-> Fmt3(seg[2]),
        chain |-> <<"atrim", "asetpts">>, outs |-> <<alab(i)>>] >>

RECURSIVE TrimLoop(_, _)
TrimLoop(keep_ranges, n) ==
    IF n = 0 THEN <<>> ELSE TrimLoop(keep_ranges, n - 1) \o TrimParts(n - 1, keep_ranges[n])

\* the labels grouped as v0, v1, ..., a0, a1, ...
PairLabelsGrouped(n) == [k \in 1..(2 * n) |-> IF k <= n THEN vlab(k - 1) ELSE alab(k - n - 1)]

\* pair_labels: [v0][a0][v1][a1]...
RECURSIVE PairLabels(_)
PairLabels(n) == IF n = 0 THEN <<>> ELSE PairLabels(n - 1) \o <<vlab(n - 1), alab(n - 1)>>

ConcatPart(n) ==
    [op |-> "concat", ins |-> PairLabels(n), start |-> 0, end |-> 0,
     chain |-> <<"concat">>, outs |-> << Fixed("vcat"), Fixed("acat") >>]

\* denoise = (preset_audio_denoise + ",") if preset_audio_denoise else ""
AudioPart(audio_chain, preset_audio_denoise) ==
    [op |-> "chain", ins |-> << Fixed("acat") >>, start |-> 0, end |-> 0,
     chain |-> (IF preset_audio_denoise # "" THEN <<preset_audio_denoise>> ELSE <<>>)
                \o <<audio_chain>>,
     outs |-> << Fixed("aout") >>]

\* an emptiness test that never fires
RaisesNever(keep_ranges) == Len(keep_ranges) < 0

\* n == 0 raises RuntimeError
Raises(keep_ranges) == Len(keep_ranges) = 0

build_filter_complex(keep_ranges, audio_chain, preset_audio_denoise) ==
    LET n == Len(keep_ranges)
    IN  TrimLoop(keep_ranges, n) \o <<ConcatPart(n)>>
          \o <<AudioPart(audio_chain, preset_audio_denoise)>>

-----------------------------------------------------------------------------
(* Inputs *)

\* the keyword arguments of build_keep_ranges_gentle
Params(lt, rr, mn, mx, ht) ==
    [long_threshold_s |-> lt, reduce_ratio |-> rr, min_final_s |-> mn,
     max_final_s |-> mx, head_tail_ratio |-> ht]

\* main: None if args.max_final_silence < 0 else args.max_final_silence/1000.0
main_max_final(ms) == IF ms < 0 THEN None ELSE <<ms * Ms>>

\* main: dur = probe_duration_seconds(inp) or 0.0; a failed probe is <<>>
main_dur(probed) == IF probed = <<>> \/ probed[1] = 0 THEN 0 ELSE probed[1]

\* the audio chains main passes
audio_chain == "dynaudnorm,acompressor,loudnorm"
post_denoise == "afftdn,highpass,lowpass"

\* reduce_ratio in (0, 1] and head_tail_ratio in [0, 1], in tenths
ReduceRatios == {2, RatioDen}
HeadTailRatios == {0, 5, RatioDen}
\* --long-threshold, --min-final-silence, --max-final-silence in milliseconds
LongThresholds == {0, 2, 4}
MinFinals == {0, 1, 4}
MaxFinals == {-1, 0, 1, 4}

ParamSet ==
    { Params(lt * Ms, rr, mn * Ms, main_max_final(mx), ht) :
        lt \in LongThresholds, rr \in ReduceRatios, mn \in MinFinals,
        mx \in MaxFinals, ht \in HeadTailRatios }

\* the timestamps tried: 0, 1, 4, 5, 8, 9, ... milliseconds, so that two of them are
\* within the merge tolerance of each other (1 ms) or well apart (3 ms and more)
GridPoint(k) == ((k \div 2) * 4 + (k % 2)) * Ms

Grid(n) == { GridPoint(k) : k \in 0..n }

\* the sequences over S of length at most n
SeqUpTo(S, n) == UNION { [1..k -> S] : k \in 0..n }

Ascending(q) == \A k \in 1..(Len(q) - 1) : q[k] < q[k + 1]

\* ascending stamp lists, as silencedetect prints them
Stamps == { q \in SeqUpTo(Grid(MaxStamp), MaxEvents) : Ascending(q) }

\* intervals with start <= end on the millisecond grid
Intervals == { iv \in Grid(MaxT) \X Grid(MaxT) : iv[1] <= iv[2] }

\* start <= end, ascending by start, pairwise non-overlapping
ValidSilences(sil) ==
    /\ \A k \in 1..Len(sil) : sil[k][1] <= sil[k][2]
    /\ \A k \in 1..(Len(sil) - 1) : sil[k][2] <= sil[k + 1][1]

SilenceLists == { sil \in SeqUpTo(Intervals, MaxSilences) : ValidSilences(sil) }

Totals == { 0, GridPoint(2), GridPoint(MaxT) }

\* what ffprobe reports: nothing usable, or a duration
Probes == { <<>>, <<0>>, <<GridPoint(MaxStamp)>> }

MainParamSet ==
    { Params(2 * Ms, rr, 1 * Ms, main_max_final(mx), 5) : rr \in ReduceRatios, mx \in {-1, 1} }

\* arbitrary range lists for the merge pass
RangeLists == SeqUpTo(Grid(MaxCoord) \X Grid(MaxCoord), MaxSegs)

-----------------------------------------------------------------------------
(* The run of main: detect, build the keep ranges, build the filter graph *)

Init ==
    /\ pc = "detect"
    /\ starts \in Stamps
    /\ ends \in Stamps
    /\ \E probed \in Probes : total_s = main_dur(probed)
    /\ params \in MainParamSet
    /\ preset \in {"", post_denoise}
    /\ silences = <<>>
    /\ keep = <<>>
    /\ ranges = <<>>
    /\ fc = <<>>

Detect ==
    /\ pc = "detect"
    /\ silences' = detect_silences_ffmpeg(starts, ends)
    /\ pc' = "keep"
    /\ UNCHANGED <<starts, ends, total_s, params, preset, keep, ranges, fc>>

BuildKeep ==
    /\ pc = "keep"
    /\ keep' = build_keep_ranges_gentle(total_s, silences, params)
    /\ pc' = "filter"
    /\ UNCHANGED <<starts, ends, total_s, params, preset, silences, ranges, fc>>

BuildFilter ==
    /\ pc = "filter"
    /\ ~Raises(keep)
    /\ fc' = build_filter_complex(keep, audio_chain, preset)
    /\ pc' = "done"
    /\ UNCHANGED <<starts, ends, total_s, params, preset, silences, keep, ranges>>

BuildFilterRaise ==
    /\ pc = "filter"
    /\ Raises(keep)
    /\ pc' = "RuntimeError"
    /\ UNCHANGED <<starts, ends, total_s, params, preset, silences, keep, ranges, fc>>

Next == Detect \/ BuildKeep \/ BuildFilter \/ BuildFilterRaise

Spec == Init /\ [][Next]_vars

-----------------------------------------------------------------------------
(* build_keep_ranges_gentle called on every valid silence list *)

InitKeep ==
    /\ pc = "keep"
    /\ starts = <<>>
    /\ ends = <<>>
    /\ total_s \in Totals
    /\ params \in ParamSet
    /\ preset = ""
    /\ silences \in SilenceLists
    /\ keep = <<>>
    /\ ranges = <<>>
    /\ fc = <<>>

NextKeep == BuildKeep

SpecKeep == InitKeep /\ [][NextKeep]_vars

-----------------------------------------------------------------------------
(* the merge pass applied to every list of ranges *)

InitMerge ==
    /\ pc = "merge"
    /\ starts = <<>>
    /\ ends = <<>>
    /\ total_s = 0
    /\ params = Params(0, RatioDen, 0, None, 0)
    /\ preset = ""
    /\ silences = <<>>
    /\ keep = <<>>
    /\ ranges \in RangeLists
    /\ fc = <<>>

Merge ==
    /\ pc = "merge"
    /\ keep' = MergePass(ranges)
    /\ pc' = "merged"
    /\ UNCHANGED <<starts, ends, total_s, params, preset, silences, ranges, fc>>

NextMerge == Merge

SpecMerge == InitMerge /\ [][NextMerge]_vars

-----------------------------------------------------------------------------
(* Vocabulary of the properties *)

\* build_keep_ranges_gentle has returned
KeepReturned == pc \in {"filter", "done", "RuntimeError"}

\* every range has start <= end, and each range ends no later than the next starts
SortedDisjoint(r) ==
    /\ \A k \in 1..Len(r) : r[k][1] <= r[k][2]
    /\ \A k \in 1..(Len(r) - 1) : r[k][2] <= r[k + 1][1]

\* [a, b] lies inside one range of r
Inside(r, a, b) == \E j \in 1..Len(r) : r[j][1] <= a /\ b <= r[j][2]

\* the length of the part of [s, e] that the (pairwise disjoint) ranges of r cover
RECURSIVE Covered(_, _, _)
Covered(r, s, e) ==
    IF r = <<>> THEN 0
    ELSE Max(0, Min(e, Head(r)[2]) - Max(s, Head(r)[1])) + Covered(Tail(r), s, e)

\* clamp(L * reduce_ratio, min_final, max_final), no max_final meaning no ceiling
Clamp(L, p) ==
    LET x  == Scale(L, p.reduce_ratio)
        lo == p.min_final_s
    IN  IF x < lo THEN (IF p.max_final_s # None /\ lo > p.max_final_s[1]
                        THEN p.max_final_s[1] ELSE lo)
        ELSE IF p.max_final_s # None /\ x > p.max_final_s[1] THEN p.max_final_s[1]
        ELSE x

MinLeMax(p) == p.max_final_s = None \/ p.min_final_s <= p.max_final_s[1]

SilLen(sil, k) == sil[k][2] - sil[k][1]

IsLong(sil, k, p) == SilLen(sil, k) >= p.long_threshold_s

-----------------------------------------------------------------------------
(* Properties of build_keep_ranges_gentle, checked under SpecKeep *)

\* C1: for a valid silence list, the returned ranges each have start <= end and
\* each range ends no later than the next one starts (sorted, non-overlapping).
C1_SortedNonOverlapping ==
    KeepReturned /\ ValidSilences(silences) => SortedDisjoint(keep)

\* two silences, one of them shrunk, and at least three ranges returned
C1_Witness ==
    /\ KeepReturned
    /\ Len(silences) = 2
    /\ Len(keep) >= 3
    /\ \E k \in 1..2 : IsLong(silences, k, params) /\ SilLen(silences, k) > 0

\* C2: every returned range [a, b] has 0 <= a and b <= total_duration.
C2_WithinTimeline ==
    KeepReturned => \A k \in 1..Len(keep) : 0 <= keep[k][1] /\ keep[k][2] <= total_s

\* C3 as claimed: for every long silence, with min_final <= max_final, the length of
\* the silence covered by the returned ranges equals clamp(L*reduce_ratio, min, max).
C3_KeptEqualsClamp ==
    KeepReturned /\ ValidSilences(silences) /\ MinLeMax(params) =>
        \A k \in 1..Len(silences) :
            IsLong(silences, k, params) =>
                Covered(keep, silences[k][1], silences[k][2])
                    = Clamp(SilLen(silences, k), params)

\* no long silence of the list is asked to retain more than its own length
NoOverflow(sil, p) ==
    \A k \in 1..Len(sil) : IsLong(sil, k, p) => Clamp(SilLen(sil, k), p) <= SilLen(sil, k)

\* C3 amended: the covered length of a long silence is never less than
\* min(L, clamp); and when no long silence of the list has clamp > its length, it is
\* clamp if L - clamp exceeds the merge tolerance and L (the whole silence) otherwise.
C3_KeptAtLeastClamp ==
    KeepReturned /\ ValidSilences(silences) /\ MinLeMax(params) =>
        \A k \in 1..Len(silences) :
            IsLong(silences, k, params) =>
                LET L == SilLen(silences, k)
                    c == Clamp(L, params)
                    kept == Covered(keep, silences[k][1], silences[k][2])
                IN  /\ kept >= Min(L, c)
                    /\ kept <= L
                    /\ NoOverflow(silences, params) =>
                           kept = (IF L - c > Eps THEN c ELSE L)

\* a long silence shrunk to a head and a tail fragment, strictly shorter than it was
C3_Witness ==
    /\ KeepReturned
    /\ MinLeMax(params)
    /\ NoOverflow(silences, params)
    /\ \E k \in 1..Len(silences) :
          /\ IsLong(silences, k, params)
          /\ params.head_tail_ratio = 5
          /\ Clamp(SilLen(silences, k), params) > 0
          /\ Covered(keep, silences[k][1], silences[k][2]) < SilLen(silences, k)

\* C8 as claimed: every short silence (s, e) is itself one of the returned ranges.
C8_ShortUnchanged ==
    KeepReturned /\ ValidSilences(silences) =>
        \A k \in 1..Len(silences) :
            ~IsLong(silences, k, params) => \E j \in 1..Len(keep) : keep[j] = silences[k]

\* C8 amended: every short silence (s, e) lies inside one returned range.
C8_ShortInsideOneRange ==
    KeepReturned /\ ValidSilences(silences) =>
        \A k \in 1..Len(silences) :
            ~IsLong(silences, k, params) => Inside(keep, silences[k][1], silences[k][2])

\* a short silence of positive length that the merge pass joined to the speech around it
C8_Witness ==
    /\ KeepReturned
    /\ \E k \in 1..Len(silences) :
          /\ ~IsLong(silences, k, params)
          /\ SilLen(silences, k) > 0
          /\ Inside(keep, silences[k][1], silences[k][2])
          /\ \A j \in 1..Len(keep) : keep[j] # silences[k]

\* the stretches of [0, total] between the silences, as pairs <<a, b>> with a < b
SpeechGaps(total, sil) ==
    LET n == Len(sil)
        from(k) == IF k = 0 THEN 0 ELSE sil[k][2]
        to(k) == IF k = n THEN total ELSE sil[k + 1][1]
    IN  { <<from(k), to(k)>> : k \in { i \in 0..n : from(i) < to(i) } }

\* C10: with total > 0 and all silences inside [0, total], every stretch of the
\* timeline outside the silences lies inside a returned range: speech is never cut.
C10_SpeechKept ==
    KeepReturned /\ total_s > 0 /\ ValidSilences(silences)
      /\ (\A k \in 1..Len(silences) : silences[k][2] <= total_s) =>
        \A g \in SpeechGaps(total_s, silences) : Inside(keep, g[1], g[2])

\* speech before, between and after two silences, one of which lost its middle
C10_Witness ==
    /\ KeepReturned
    /\ total_s > 0
    /\ Len(silences) = 2
    /\ \A k \in 1..2 : silences[k][2] <= total_s
    /\ Cardinality(SpeechGaps(total_s, silences)) >= 2
    /\ Len(keep) >= 2

-----------------------------------------------------------------------------
(* The merge pass, checked under SpecMerge *)

\* C7: the merge pass applied to its own output returns that output unchanged.
C7_MergeIdempotent == pc = "merged" => MergePass(keep) = keep

\* a list in which the pass merged some ranges and kept others apart
C7_Witness == pc = "merged" /\ Len(keep) >= 2 /\ Len(keep) < Len(ranges)

-----------------------------------------------------------------------------
(* Properties of the run of main, checked under Spec *)

\* C4: a call of build_keep_ranges_gentle with total_duration <= 0 ends in a
\* NonPositiveDurationError and returns no list.
C4_NonPositiveDurationFails ==
    total_s <= 0 /\ pc \notin {"detect", "keep"} => pc = "NonPositiveDurationError"

\* the parts of fc whose op is one of ops
Count(parts, ops) == Cardinality({ k \in 1..Len(parts) : parts[k].op \in ops })

\* build_filter_complex has returned or raised
FilterEnded == pc \in {"done", "RuntimeError"}

\* C5: on an empty keep-range list build_filter_complex fails and returns nothing;
\* on n >= 1 ranges it returns n trims, n atrims, 1 concatenate and 1 filter-chain part.
C5_PartCounts ==
    FilterEnded =>
        LET n == Len(keep)
        IN  /\ n = 0 => pc = "RuntimeError" /\ fc = <<>>
            /\ n >= 1 => /\ pc = "done"
                         /\ Count(fc, {"trim"}) = n
                         /\ Count(fc, {"atrim"}) = n
                         /\ Count(fc, {"concat"}) = 1
                         /\ Count(fc, {"chain"}) = 1
                         /\ Len(fc) = 2 * n + 2

\* a graph built from at least two keep ranges
C5_Witness == pc = "done" /\ Len(keep) >= 2 /\ Len(fc) >= 6

Earlier(parts, k) == UNION { { parts[j].outs[i] : i \in 1..Len(parts[j].outs) } : j \in 1..(k - 1) }

\* v0, a0, v1, a1, ... for n ranges
Interleaved(n) ==
    [k \in 1..(2 * n) |-> IF k % 2 = 1 THEN <<"v", (k - 1) \div 2>> ELSE <<"a", (k - 2) \div 2>>]

\* the labels written by all parts, in order
RECURSIVE AllOuts(_)
AllOuts(parts) == IF parts = <<>> THEN <<>> ELSE Head(parts).outs \o AllOuts(Tail(parts))

\* C9: every part reads only the source inputs or labels written by an earlier part;
\* no label is written twice; the one concatenate part reads exactly the trim outputs
\* in range order as v0, a0, v1, a1, ...; the filter-chain part is last and applies
\* the pre-chain before the post-concat chain.
C9_GraphOrder ==
    pc = "done" =>
        LET n == Len(keep)
            outs == AllOuts(fc)
            trims == SubSeq(fc, 1, 2 * n)
            cat == fc[2 * n + 1]
            last == fc[Len(fc)]
        IN  /\ \A k \in 1..Len(fc) : \A i \in 1..Len(fc[k].ins) :
                   fc[k].ins[i] \in {Fixed("0:v"), Fixed("0:a")} \cup Earlier(fc, k)
            /\ \A i, j \in 1..Len(outs) : outs[i] = outs[j] => i = j
            /\ cat.op = "concat"
            /\ cat.ins = AllOuts(trims)
            /\ cat.ins = Interleaved(n)
            /\ \A k \in 1..n : /\ trims[2 * k - 1].start = Fmt3(keep[k][1])
                               /\ trims[2 * k - 1].end = Fmt3(keep[k][2])
                               /\ trims[2 * k].start = Fmt3(keep[k][1])
                               /\ trims[2 * k].end = Fmt3(keep[k][2])
            /\ last.op = "chain"
            /\ last.ins = <<cat.outs[2]>>
            /\ last.chain = IF preset = "" THEN <<audio_chain>> ELSE <<preset, audio_chain>>

\* a graph of at least two ranges with a pre-chain
C9_Witness == pc = "done" /\ Len(keep) >= 2 /\ preset # ""

====
